---- MODULE Spec2Model ----
(***************************************************************************)
(* NZ Fishing Predictor backend (src/fishing-app/node.js).                 *)
(*                                                                         *)
(* Real-valued quantities of the program are JavaScript doubles.  The      *)
(* environmental quantities (temperature, current, chlorophyll, wind,      *)
(* waves) are only ever compared with decimal thresholds and are kept as   *)
(* integers in thousandths of their unit (22 degrees C is 22000).          *)
(* Grid coordinates are accumulated by repeated floating-point addition,   *)
(* so they are kept as exact IEEE-754 doubles (see the Double section).    *)
(***************************************************************************)
EXTENDS Integers, Sequences, FiniteSets, TLC

VARIABLES
    scoreIn,        \* argument and wall-clock hour of a calculateFishingFavorability call
    scoreOut,       \* <<>> before the call, <<result>> after it
    rnd,            \* state of Math.random: [pos, stride] into RandomDraws
    now,            \* the wall clock
    generated,      \* return value of a generateFreshPredictions call
    predictions,    \* the predictions table, in rowid order
    predReqs,       \* the GET /api/predictions requests, in order of arrival
    environmental_data, \* the environmental_data table, in rowid order
    gridReq,        \* the GET /api/conditions/grid request being followed
    startups,       \* how many times the server has been started on the database
    hotspots,       \* the hotspots table, in rowid order
    users,          \* the users table, in rowid order
    catch_logs,     \* the catch_logs table, in rowid order
    catchReq,       \* the /api/catches request being followed
    regReqs,        \* the POST /api/register requests, in order of arrival
    loginReq,       \* the POST /api/login request being followed
    issued,         \* the tokens the server has handed out
    publicReq,      \* the GET /api/catches/public request being followed
    proc,           \* the node process: "running" or "exited"
    console,        \* the messages the program has logged
    refreshJob      \* the runs of refreshEnvironmentalData and their queued INSERTs

scoreVars == <<scoreIn, scoreOut>>

genVars == <<rnd, now, generated>>

predVars == <<predictions, predReqs>>

gridVars == <<environmental_data, gridReq>>

catchVars == <<startups, hotspots, users, catch_logs, catchReq>>

accountVars == <<regReqs, loginReq, issued>>

publicVars == <<publicReq>>

processVars == <<proc, console, refreshJob>>

vars == <<scoreIn, scoreOut, rnd, now, generated, predictions, predReqs,
         environmental_data, gridReq, startups, hotspots, users, catch_logs,
         catchReq, regReqs, loginReq, issued, publicReq, proc, console,
         refreshJob>>

(***************************************************************************)
(* calculateFishingFavorability                                            *)
(***************************************************************************)

\* Thousandths of a unit: the scale of every environmental quantity.
Milli(whole, thousandths) == whole * 1000 + thousandths

temperaturePoints(c) ==
    IF c.sea_temperature >= Milli(20, 0) /\ c.sea_temperature <= Milli(24, 0) THEN 25
    ELSE IF c.sea_temperature >= Milli(18, 0) /\ c.sea_temperature <= Milli(26, 0) THEN 15
    ELSE 0

currentPoints(c) ==
    IF c.current_speed >= Milli(0, 500) /\ c.current_speed <= Milli(1, 200) THEN 20
    ELSE IF c.current_speed >= Milli(0, 300) /\ c.current_speed <= Milli(1, 500) THEN 10
    ELSE 0

chlorophyllPoints(c) ==
    IF c.chlorophyll >= Milli(0, 100) /\ c.chlorophyll <= Milli(0, 400) THEN 20
    ELSE IF c.chlorophyll >= Milli(0, 50) /\ c.chlorophyll <= Milli(0, 600) THEN 10
    ELSE 0

\* Mutation: the optimal wind bound taken strictly.
windPointsStrict(c) ==
    IF c.wind_speed < Milli(15, 0) THEN 15
    ELSE IF c.wind_speed <= Milli(20, 0) THEN 8
    ELSE 0

windPoints(c) ==
    IF c.wind_speed <= Milli(15, 0) THEN 15
    ELSE IF c.wind_speed <= Milli(20, 0) THEN 8
    ELSE 0

wavePoints(c) ==
    IF c.wave_height <= Milli(2, 0) THEN 10
    ELSE IF c.wave_height <= Milli(3, 0) THEN 5
    ELSE 0

primeTime(hour) == (hour >= 5 /\ hour <= 8) \/ (hour >= 17 /\ hour <= 19)

timePoints(hour) == IF primeTime(hour) THEN 10 ELSE 0

\* The local variable `score` at the return statement.
rawScore(c, hour) ==
    temperaturePoints(c) + currentPoints(c) + chlorophyllPoints(c)
        + windPoints(c) + wavePoints(c) + timePoints(hour)

Min(a, b) == IF a <= b THEN a ELSE b
Max(a, b) == IF a >= b THEN a ELSE b

\* Math.min(100, Math.max(0, x))
clamp(x) == Min(100, Max(0, x))

\* Mutation: the top threshold taken strictly.
ratingOfStrict(score) ==
    IF score > 80 THEN "excellent"
    ELSE IF score >= 60 THEN "good"
    ELSE IF score >= 40 THEN "fair"
    ELSE "poor"

ratingOf(score) ==
    IF score >= 80 THEN "excellent"
    ELSE IF score >= 60 THEN "good"
    ELSE IF score >= 40 THEN "fair"
    ELSE "poor"

label(points, best) ==
    IF points = best THEN "optimal" ELSE IF points > 0 THEN "good" ELSE "poor"

factorsOf(c, hour) ==
    [temperature |-> label(temperaturePoints(c), 25),
     current     |-> label(currentPoints(c), 20),
     chlorophyll |-> label(chlorophyllPoints(c), 20),
     wind        |-> label(windPoints(c), 15),
     waves       |-> label(wavePoints(c), 10),
     time        |-> IF primeTime(hour) THEN "prime_time" ELSE "absent"]

\* The rating is computed from the unclamped local `score`, the returned
\* score from the clamped one.
calculateFishingFavorability(c, hour) ==
    [score   |-> clamp(rawScore(c, hour)),
     rating  |-> ratingOf(rawScore(c, hour)),
     factors |-> factorsOf(c, hour)]

(***************************************************************************)
(* Scoring harness: one call of calculateFishingFavorability on a reading  *)
(* drawn from values on, next to and between every threshold.              *)
(***************************************************************************)

TemperatureValues ==
    {Milli(17, 999), Milli(18, 0), Milli(19, 999), Milli(20, 0), Milli(22, 0),
     Milli(24, 0), Milli(24, 1), Milli(26, 0), Milli(26, 1)}
CurrentValues ==
    {Milli(0, 299), Milli(0, 300), Milli(0, 499), Milli(0, 500), Milli(0, 800),
     Milli(1, 200), Milli(1, 201), Milli(1, 500), Milli(1, 501)}
ChlorophyllValues ==
    {Milli(0, 49), Milli(0, 50), Milli(0, 99), Milli(0, 100), Milli(0, 200),
     Milli(0, 400), Milli(0, 401), Milli(0, 600), Milli(0, 601)}
WindValues == {Milli(10, 0), Milli(15, 0), Milli(15, 1), Milli(20, 0), Milli(20, 1)}
WaveValues == {Milli(1, 0), Milli(2, 0), Milli(2, 1), Milli(3, 0), Milli(3, 1)}
Hours == 0 .. 23

ScoreReadings ==
    [sea_temperature : TemperatureValues, current_speed : CurrentValues,
     chlorophyll : ChlorophyllValues, wind_speed : WindValues,
     wave_height : WaveValues]

ScoreStart ==
    /\ scoreIn \in [conditions : ScoreReadings, hour : Hours]
    /\ scoreOut = <<>>

\* The scorer is not being exercised.
ScoreIdle ==
    /\ scoreIn = [conditions |-> CHOOSE c \in ScoreReadings : TRUE, hour |-> 0]
    /\ scoreOut = <<>>

ScoreCall ==
    /\ scoreOut = <<>>
    /\ scoreOut' = <<calculateFishingFavorability(scoreIn.conditions, scoreIn.hour)>>
    /\ UNCHANGED <<scoreIn, genVars, predVars, gridVars, catchVars, accountVars, publicVars, processVars>>

(***************************************************************************)
(* Strings.  A string is a TLA+ string; where the program looks inside one *)
(* (String.prototype.includes) its characters come from Chars.             *)
(***************************************************************************)

Chars ==
    ("Blue Marlin" :> <<"B", "l", "u", "e", " ", "M", "a", "r", "l", "i", "n">>) @@
    ("Striped Marlin" :> <<"S", "t", "r", "i", "p", "e", "d", " ", "M", "a", "r", "l", "i", "n">>) @@
    ("Yellowfin Tuna" :> <<"Y", "e", "l", "l", "o", "w", "f", "i", "n", " ", "T", "u", "n", "a">>) @@
    ("Bigeye Tuna" :> <<"B", "i", "g", "e", "y", "e", " ", "T", "u", "n", "a">>) @@
    ("Albacore Tuna" :> <<"A", "l", "b", "a", "c", "o", "r", "e", " ", "T", "u", "n", "a">>) @@
    ("Snapper" :> <<"S", "n", "a", "p", "p", "e", "r">>) @@
    ("all" :> <<"a", "l", "l">>)

\* String.prototype.includes(pattern), pattern given as its characters.
includes(str, pattern) ==
    LET s == Chars[str] IN
    \E i \in 1 .. (Len(s) - Len(pattern) + 1) :
        SubSeq(s, i, i + Len(pattern) - 1) = pattern

(***************************************************************************)
(* generateSimulatedConditions.  Math.random() is an opaque generator      *)
(* returning a double in [0,1); a draw is kept in thousandths.  One call   *)
(* consumes seven draws.  The generator delivers the rows of RandomDraws   *)
(* cyclically, from a start row and with a stride chosen when the process  *)
(* starts.                                                                 *)
(***************************************************************************)

RandomDraws ==
    << <<550, 550, 550, 550, 550, 550, 550>>,
       <<500, 400, 0, 300, 200, 999, 200>>,
       <<0, 0, 100, 0, 999, 100, 999>>,
       <<900, 600, 250, 900, 600, 750, 700>>,
       <<600, 500, 999, 400, 400, 0, 300>> >>

NumDraws == Len(RandomDraws)

\* The draws of the k-th next call (k = 0 is the next one).
drawsAt(r, k) == RandomDraws[((r.pos + r.stride * k) % NumDraws) + 1]

\* The generator after n calls.
advance(r, n) == [r EXCEPT !.pos = (r.pos + r.stride * n) % NumDraws]

\* Math.floor(x) for x = num / 1000, num >= 0.
MathFloorMilli(num) == num \div 1000

generateSimulatedConditions(lat, lng, d, t) ==
    [latitude          |-> lat,
     longitude         |-> lng,
     timestamp         |-> t,
     sea_temperature   |-> Milli(18, 0) + d[1] * 8,
     current_speed     |-> (d[2] * 1500) \div 1000,
     current_direction |-> MathFloorMilli(d[3] * 360),
     chlorophyll       |-> (d[4] * 600) \div 1000,
     wind_speed        |-> Milli(5, 0) + d[5] * 20,
     wind_direction    |-> MathFloorMilli(d[6] * 360),
     wave_height       |-> Milli(0, 500) + (d[7] * 2500) \div 1000]

(***************************************************************************)
(* Time.  Instants are whole hours since a local midnight; an ISO          *)
(* timestamp is kept as its instant (ISO strings of one format compare as  *)
(* their instants do).                                                     *)
(***************************************************************************)

\* new Date().getHours()
getHours(t) == t % 24

(***************************************************************************)
(* generateFreshPredictions                                                *)
(***************************************************************************)

\* Coordinates of the fixed locations, in hundredths of a degree.
species == <<"Blue Marlin", "Striped Marlin", "Yellowfin Tuna", "Bigeye Tuna", "Albacore Tuna">>

locations ==
    << [name |-> "North Cape", lat |-> -3442, lng |-> 17305],
       [name |-> "King Bank", lat |-> -3415, lng |-> 17380],
       [name |-> "Middlesex Bank", lat |-> -3430, lng |-> 17360],
       [name |-> "Three Kings", lat |-> -3417, lng |-> 17213] >>

\* Math.round(num / den) for num >= 0: floor(x + 1/2).
MathRound(num, den) == (2 * num + den) \div (2 * den)

\* Mutation: the marlin bonus given whatever the temperature.
marlinBonusAlways(fish, conditions) ==
    IF includes(fish, <<"M", "a", "r", "l", "i", "n">>) THEN 10 ELSE 0

marlinBonus(fish, conditions) ==
    IF includes(fish, <<"M", "a", "r", "l", "i", "n">>)
        /\ conditions.sea_temperature > Milli(22, 0)
    THEN 10 ELSE 0

tunaBonus(fish, conditions) ==
    IF includes(fish, <<"T", "u", "n", "a">>)
        /\ conditions.current_speed > Milli(0, 800)
    THEN 8 ELSE 0

\* The body of the inner forEach: the prediction pushed for (location, fish).
predictionFor(location, fish, d, t) ==
    LET conditions == generateSimulatedConditions(location.lat, location.lng, d, t)
        favorability == calculateFishingFavorability(conditions, getHours(t))
        probability == clamp(favorability.score + marlinBonus(fish, conditions)
                                + tunaBonus(fish, conditions))
    IN  [latitude    |-> location.lat,
         longitude   |-> location.lng,
         timestamp   |-> t,
         species     |-> fish,
         probability |-> MathRound(probability, 1),
         conditions  |-> conditions,
         factors     |-> favorability.factors]

\* The array `predictions` before the sort: locations outer, species inner.
unsortedPredictions(r, t) ==
    [k \in 1 .. (Len(locations) * Len(species)) |->
        predictionFor(locations[((k - 1) \div Len(species)) + 1],
                      species[((k - 1) % Len(species)) + 1],
                      drawsAt(r, k - 1), t)]

\* Array.prototype.sort((a, b) => b.probability - a.probability): a stable
\* sort; p goes behind every element that does not compare after it.
RECURSIVE insertByProbability(_, _)
insertByProbability(sorted, p) ==
    IF sorted = <<>> THEN <<p>>
    ELSE IF Head(sorted).probability >= p.probability
         THEN <<Head(sorted)>> \o insertByProbability(Tail(sorted), p)
         ELSE <<p>> \o sorted

RECURSIVE sortByProbability(_)
sortByProbability(seq) ==
    IF seq = <<>> THEN <<>>
    ELSE insertByProbability(sortByProbability(SubSeq(seq, 1, Len(seq) - 1)),
                             seq[Len(seq)])

\* Mutation: the batch returned in generation order.
generateFreshPredictionsUnsorted(r, t) == unsortedPredictions(r, t)

generateFreshPredictions(r, t) == sortByProbability(unsortedPredictions(r, t))

(***************************************************************************)
(* Generator harness: one call of generateFreshPredictions, for every      *)
(* start row and stride of the random generator and every hour.            *)
(***************************************************************************)

GenStart ==
    /\ rnd \in [pos : 0 .. (NumDraws - 1), stride : 0 .. (NumDraws - 1)]
    /\ now \in Hours
    /\ generated = <<>>

\* The generator is not being exercised.
GenIdle ==
    /\ rnd = [pos |-> 0, stride |-> 0]
    /\ now = 0
    /\ generated = <<>>

GenCall ==
    /\ generated = <<>>
    /\ generated' = generateFreshPredictions(rnd, now)
    /\ rnd' = advance(rnd, Len(locations) * Len(species))
    /\ UNCHANGED <<now, scoreVars, predVars, gridVars, catchVars, accountVars, publicVars, processVars>>

(***************************************************************************)
(* GET /api/predictions.  The handler runs in three callbacks of the event *)
(* loop: the route handler issues the SELECT, sqlite runs it, the db.all   *)
(* callback answers (generating and queueing the INSERTs of a fresh batch  *)
(* when the result is empty), and sqlite runs the queued INSERTs one by    *)
(* one.  Other requests interleave between these steps.                    *)
(***************************************************************************)

MaxRequests == 2
MaxClock == 9
InsertChunk == 10

\* Values of the query parameters `species` and `hours`.
SpeciesParams == {"all", "Blue Marlin", "Snapper"}
HoursParams == {1, 24}

\* The columns of a prediction that do not depend on the row it is stored in.
content(p) ==
    [latitude |-> p.latitude, longitude |-> p.longitude, timestamp |-> p.timestamp,
     species |-> p.species, probability |-> p.probability,
     conditions |-> p.conditions, factors |-> p.factors]

\* INSERT INTO predictions (...) VALUES (...): id is AUTOINCREMENT and
\* created_at defaults to CURRENT_TIMESTAMP.
insertPrediction(table, p, t) ==
    Append(table, [id |-> Len(table) + 1, latitude |-> p.latitude,
                   longitude |-> p.longitude, timestamp |-> p.timestamp,
                   species |-> p.species, probability |-> p.probability,
                   conditions |-> p.conditions, factors |-> p.factors,
                   created_at |-> t])

RECURSIVE insertPredictions(_, _, _)
insertPredictions(table, ps, t) ==
    IF ps = <<>> THEN table
    ELSE insertPredictions(insertPrediction(table, Head(ps), t), Tail(ps), t)

\* ORDER BY probability DESC, timestamp DESC; rows equal on both keep the
\* order of the table.
RECURSIVE insertOrdered(_, _)
insertOrdered(sorted, r) ==
    IF sorted = <<>> THEN <<r>>
    ELSE IF \/ Head(sorted).probability > r.probability
            \/ /\ Head(sorted).probability = r.probability
               /\ Head(sorted).timestamp >= r.timestamp
         THEN <<Head(sorted)>> \o insertOrdered(Tail(sorted), r)
         ELSE <<r>> \o sorted

RECURSIVE orderByProbabilityTimestamp(_)
orderByProbabilityTimestamp(rows) ==
    IF rows = <<>> THEN <<>>
    ELSE insertOrdered(orderByProbabilityTimestamp(SubSeq(rows, 1, Len(rows) - 1)),
                       rows[Len(rows)])

\* Mutation: the species filter dropped from the SELECT.
selectPredictionsAnySpecies(table, speciesParam, hoursAgo) ==
    orderByProbabilityTimestamp(SelectSeq(table, LAMBDA r : r.timestamp > hoursAgo))

\* The SELECT of the handler: filtered by species unless species is 'all'.
selectPredictions(table, speciesParam, hoursAgo) ==
    orderByProbabilityTimestamp(
        SelectSeq(table, LAMBDA r :
            /\ (speciesParam # "all" => r.species = speciesParam)
            /\ r.timestamp > hoursAgo))

\* Every request that arrived earlier has been answered and has no INSERT left.
allDone(rs) == \A k \in 1 .. Len(rs) : rs[k].pc = "done"

\* The route handler up to db.all(...): the parameters are read, hoursAgo is
\* computed from the clock and the SELECT is handed to sqlite.
PredictionsRequest(sp, h) ==
    /\ proc = "running"
    /\ Len(predReqs) < MaxRequests
    /\ predReqs' = Append(predReqs,
            [species |-> sp, hours |-> h, hoursAgo |-> now - h, pc |-> "query",
             err |-> FALSE, rows |-> <<>>, status |-> 0, body |-> <<>>,
             generated |-> FALSE, pending |-> <<>>, insertFailed |-> FALSE,
             quiet |-> allDone(predReqs), alone |-> FALSE])
    /\ UNCHANGED <<predictions, rnd, now, scoreVars, generated, gridVars, catchVars, accountVars, publicVars, processVars>>

\* sqlite runs the SELECT and either produces its rows or fails.
PredictionsQuery(i, fails) ==
    /\ proc = "running"
    /\ predReqs[i].pc = "query"
    /\ predReqs' = [predReqs EXCEPT
            ![i].pc = "callback",
            ![i].err = fails,
            ![i].rows = IF fails THEN <<>>
                        ELSE selectPredictions(predictions, predReqs[i].species,
                                               predReqs[i].hoursAgo)]
    /\ UNCHANGED <<predictions, rnd, now, scoreVars, generated, gridVars, catchVars, accountVars, publicVars, processVars>>

\* The db.all callback.
PredictionsCallback(i) ==
    LET r == predReqs[i]
        fresh == generateFreshPredictions(rnd, now) IN
    /\ proc = "running"
    /\ r.pc = "callback"
    /\ IF r.err
       THEN /\ predReqs' = [predReqs EXCEPT ![i].pc = "done", ![i].status = 500,
                                             ![i].alone = (Len(predReqs) = i)]
            /\ UNCHANGED rnd
       ELSE IF Len(r.rows) = 0
       THEN /\ predReqs' = [predReqs EXCEPT ![i].pc = "insert", ![i].status = 200,
                                             ![i].body = fresh,
                                             ![i].generated = TRUE,
                                             ![i].pending = fresh,
                                             ![i].alone = (Len(predReqs) = i)]
            /\ rnd' = advance(rnd, Len(fresh))
       ELSE /\ predReqs' = [predReqs EXCEPT ![i].pc = "done", ![i].status = 200,
                                             ![i].body = r.rows,
                                             ![i].alone = (Len(predReqs) = i)]
            /\ UNCHANGED rnd
    /\ UNCHANGED <<predictions, now, scoreVars, generated, gridVars, catchVars, accountVars, publicVars, processVars>>

\* sqlite runs queued stmt.run calls of the batch, in the order they were
\* queued; up to InsertChunk of them run before another statement gets its
\* turn.  stmt.run is given no callback: when a statement fails, sqlite3
\* emits 'error' on the statement, nobody listens, and the uncaught
\* exception ends the process; the request was answered before.
PredictionsInsert(i, fails) ==
    LET r == predReqs[i]
        n == Min(InsertChunk, Len(r.pending)) IN
    /\ proc = "running"
    /\ r.pc = "insert"
    /\ IF fails
       THEN /\ predReqs' = [predReqs EXCEPT ![i].insertFailed = TRUE]
            /\ proc' = "exited"
            /\ UNCHANGED predictions
       ELSE /\ predictions' =
                  insertPredictions(predictions, SubSeq(r.pending, 1, n), now)
            /\ predReqs' = [predReqs EXCEPT
                    ![i].pending = SubSeq(r.pending, n + 1, Len(r.pending)),
                    ![i].pc = IF n = Len(r.pending) THEN "done" ELSE "insert"]
            /\ UNCHANGED proc
    /\ UNCHANGED <<rnd, now, scoreVars, generated, gridVars, catchVars, accountVars, publicVars, console, refreshJob>>

\* An hour passes.
Tick ==
    /\ proc = "running"
    /\ now < MaxClock
    /\ now' = now + 1
    /\ UNCHANGED <<predictions, predReqs, rnd, scoreVars, generated, gridVars, catchVars, accountVars, publicVars, processVars>>

\* A server started at 07:00 on an empty predictions table.
PredStart ==
    /\ rnd = [pos |-> 0, stride |-> 1]
    /\ now = 7
    /\ predictions = <<>>
    /\ predReqs = <<>>

PredIdle ==
    /\ predictions = <<>>
    /\ predReqs = <<>>

(***************************************************************************)
(* Doubles.  A coordinate is held as the IEEE-754 double the program       *)
(* holds: [n, e] stands for n/100 + e * w with w = 2^-58 / 25, n the       *)
(* nominal value in hundredths of a degree and e the representation        *)
(* error.  In units of w one hundredth is 2^56 (congruent to 11 modulo     *)
(* 25) and the spacing of doubles in [2^k, 2^(k+1)) is 25 * 2^(k+6), so a  *)
(* value is a double iff e is a multiple of 2^(k+6) and 11 * n + e is a    *)
(* multiple of 25.  All arithmetic below is exact.                         *)
(***************************************************************************)

\* The binary exponent k of n/100: 2^k <= |n/100| < 2^(k+1).
exponentOf(n) ==
    LET a == IF n < 0 THEN -n ELSE n IN
    CHOOSE k \in 0 .. 8 : 100 * 2^k <= a /\ a < 100 * 2^(k + 1)

\* Round to nearest: the double nearest to n/100 + e * w.  A tie would need
\* e to differ from a double's error by half a spacing, an odd multiple of
\* 2^(k+5); the sums formed here differ from one by 0 or 3 modulo 2^(k+6).
roundToDouble(n, e) ==
    LET step == 2^(exponentOf(n) + 6)
        ulp == 25 * step
        t == CHOOSE x \in 0 .. 24 : (step * x + 11 * n) % 25 = 0
        below == (e - step * t) % ulp
    IN  [n |-> n, e |-> IF 2 * below < ulp THEN e - below ELSE e - below + ulp]

\* Number("-34.30"): the double nearest to the decimal.
Number(n) == roundToDouble(n, 0)

\* const gridSize = 0.02: the double nearest to 0.02 is 0.02 + 3w.
gridSize == [n |-> 2, e |-> 3]

\* x + y in double arithmetic.
plus(x, y) == roundToDouble(x.n + y.n, x.e + y.e)

\* x <= y on doubles.
leq(x, y) == x.n < y.n \/ (x.n = y.n /\ x.e <= y.e)

MathMin(x, y) == IF leq(x, y) THEN x ELSE y
MathMax(x, y) == IF leq(x, y) THEN y ELSE x

(***************************************************************************)
(* generateGridData                                                        *)
(***************************************************************************)

\* Mutation: the loop bound taken strictly.
RECURSIVE axisStrict(_, _)
axisStrict(x, hi) ==
    IF leq(x, hi) /\ x # hi THEN <<x>> \o axisStrict(plus(x, gridSize), hi) ELSE <<>>

\* The values a loop `for (let v = lo; v <= hi; v += gridSize)` runs through.
RECURSIVE axis(_, _)
axis(x, hi) ==
    IF leq(x, hi) THEN <<x>> \o axis(plus(x, gridSize), hi) ELSE <<>>

\* Rows outer, columns inner; each cell is sampled with the next draws.
\* parseFloat of a number returns that number.
generateGridData(lat1, lng1, lat2, lng2, r, t) ==
    LET lats == axis(lat1, lat2)
        lngs == axis(lng1, lng2)
    IN  [k \in 1 .. (Len(lats) * Len(lngs)) |->
            generateSimulatedConditions(lats[((k - 1) \div Len(lngs)) + 1],
                                        lngs[((k - 1) % Len(lngs)) + 1],
                                        drawsAt(r, k - 1), t)]

(***************************************************************************)
(* refreshEnvironmentalData and GET /api/conditions/grid                   *)
(***************************************************************************)

MaxRefreshes == 1

refreshLocations ==
    << [lat |-> -3442, lng |-> 17305], [lat |-> -3415, lng |-> 17380],
       [lat |-> -3430, lng |-> 17360], [lat |-> -3425, lng |-> 17325] >>

\* INSERT INTO environmental_data (...): one row per location, each sampled
\* with the next draws.
RECURSIVE insertReadings(_, _, _, _)
insertReadings(table, k, r, t) ==
    IF k > Len(refreshLocations) THEN table
    ELSE insertReadings(
            Append(table,
                [id |-> Len(table) + 1, created_at |-> t] @@
                generateSimulatedConditions(Number(refreshLocations[k].lat),
                                            Number(refreshLocations[k].lng),
                                            drawsAt(r, k - 1), t)),
            k + 1, r, t)

\* timestamp > datetime('now', '-6 hours').  The column holds an ISO string
\* ("2026-11-02T07:00:00.000Z") and datetime() returns "2026-11-02 01:00:00":
\* the comparison is one of text, decided by the date and, on equal dates, by
\* 'T' > ' '.  So a row passes iff its date is not before the date six hours
\* ago.
withinSixHours(timestamp, t) == timestamp \div 24 >= (t - 6) \div 24

\* ORDER BY timestamp DESC; rows of one timestamp keep the order of the table.
RECURSIVE insertByTimestamp(_, _)
insertByTimestamp(sorted, r) ==
    IF sorted = <<>> THEN <<r>>
    ELSE IF Head(sorted).timestamp >= r.timestamp
         THEN <<Head(sorted)>> \o insertByTimestamp(Tail(sorted), r)
         ELSE <<r>> \o sorted

RECURSIVE orderByTimestamp(_)
orderByTimestamp(rows) ==
    IF rows = <<>> THEN <<>>
    ELSE insertByTimestamp(orderByTimestamp(SubSeq(rows, 1, Len(rows) - 1)),
                           rows[Len(rows)])

gridColumns(r) ==
    [latitude |-> r.latitude, longitude |-> r.longitude,
     sea_temperature |-> r.sea_temperature, current_speed |-> r.current_speed,
     current_direction |-> r.current_direction, chlorophyll |-> r.chlorophyll,
     wind_speed |-> r.wind_speed, timestamp |-> r.timestamp]

\* The SELECT of the grid handler, on the normalized box.
selectGrid(table, lat1, lng1, lat2, lng2, t) ==
    LET hit == SelectSeq(table, LAMBDA r :
                    /\ leq(MathMin(lat1, lat2), r.latitude)
                    /\ leq(r.latitude, MathMax(lat1, lat2))
                    /\ leq(MathMin(lng1, lng2), r.longitude)
                    /\ leq(r.longitude, MathMax(lng1, lng2))
                    /\ withinSixHours(r.timestamp, t))
        sorted == orderByTimestamp(hit)
    IN  [k \in 1 .. Len(sorted) |-> gridColumns(sorted[k])]

\* Corner coordinates a client sends, in hundredths of a degree.
LatValues == {-3430, -3429, -3428, -3426}
LngValues == {17360, 17361, 17362, 17364}

\* Values of the query parameter `bounds`: absent, or "lat1,lng1,lat2,lng2".
BoundsParams ==
    {<<>>} \cup (LatValues \X LngValues \X LatValues \X LngValues)

\* The fallback of the grid callback.  Mutation: the box normalized as in the
\* SELECT before the grid is generated.
gridFallbackNormalized(lat1, lng1, lat2, lng2, r, t) ==
    generateGridData(MathMin(lat1, lat2), MathMin(lng1, lng2),
                     MathMax(lat1, lat2), MathMax(lng1, lng2), r, t)

gridFallback(lat1, lng1, lat2, lng2, r, t) ==
    generateGridData(lat1, lng1, lat2, lng2, r, t)

idleGridReq ==
    [bounds |-> <<>>, pc |-> "idle", err |-> FALSE, rows |-> <<>>,
     status |-> 0, body |-> <<>>, synthesized |-> FALSE]

\* The route handler up to db.all(...).  One request is followed at a time:
\* the next one is taken up when the previous one has been answered.
GridRequest(b) ==
    /\ gridReq.pc \in {"idle", "done"}
    /\ gridReq' = IF b = <<>>
                  THEN [idleGridReq EXCEPT !.pc = "done", !.status = 400]
                  ELSE [idleGridReq EXCEPT !.bounds = b, !.pc = "query"]
    /\ UNCHANGED <<environmental_data, rnd, now>>
    /\ UNCHANGED <<scoreVars, generated, predVars, catchVars, accountVars, publicVars, processVars>>

\* sqlite runs the SELECT and either produces its rows or fails.
GridQuery(fails) ==
    LET b == gridReq.bounds IN
    /\ gridReq.pc = "query"
    /\ gridReq' = [gridReq EXCEPT
            !.pc = "callback",
            !.err = fails,
            !.rows = IF fails THEN <<>>
                     ELSE selectGrid(environmental_data, Number(b[1]), Number(b[2]),
                                     Number(b[3]), Number(b[4]), now)]
    /\ UNCHANGED <<environmental_data, rnd, now>>
    /\ UNCHANGED <<scoreVars, generated, predVars, catchVars, accountVars, publicVars, processVars>>

\* The db.all callback.
GridCallback ==
    LET b == gridReq.bounds
        grid == gridFallback(Number(b[1]), Number(b[2]), Number(b[3]), Number(b[4]),
                             rnd, now) IN
    /\ gridReq.pc = "callback"
    /\ IF gridReq.err
       THEN /\ gridReq' = [gridReq EXCEPT !.pc = "done", !.status = 500]
            /\ UNCHANGED rnd
       ELSE IF Len(gridReq.rows) = 0
       THEN /\ gridReq' = [gridReq EXCEPT !.pc = "done", !.status = 200,
                                          !.body = grid, !.synthesized = TRUE]
            /\ rnd' = advance(rnd, Len(grid))
       ELSE /\ gridReq' = [gridReq EXCEPT !.pc = "done", !.status = 200,
                                          !.body = gridReq.rows]
            /\ UNCHANGED rnd
    /\ UNCHANGED <<environmental_data, now>>
    /\ UNCHANGED <<scoreVars, generated, predVars, catchVars, accountVars, publicVars, processVars>>

\* refreshEnvironmentalData: a reading for each reference location is stored.
RefreshEnvironmentalData ==
    /\ Len(environmental_data) < MaxRefreshes * Len(refreshLocations)
    /\ environmental_data' = insertReadings(environmental_data, 1, rnd, now)
    /\ rnd' = advance(rnd, Len(refreshLocations))
    /\ UNCHANGED <<gridReq, now>>
    /\ UNCHANGED <<scoreVars, generated, predVars, catchVars, accountVars, publicVars, processVars>>

\* A server started at 07:00 on an empty environmental_data table.
GridStart ==
    /\ rnd = [pos |-> 0, stride |-> 1]
    /\ now = 7
    /\ environmental_data = <<>>
    /\ gridReq = idleGridReq

GridIdle ==
    /\ environmental_data = <<>>
    /\ gridReq = idleGridReq

(***************************************************************************)
(* Startup: the db.serialize block that creates the tables and seeds the   *)
(* hotspots.                                                               *)
(***************************************************************************)

MaxStartups == 3

\* [name, latitude, longitude, avg_success_rate] of the seed array, in
\* hundredths of a degree and tenths of a percent; description,
\* species_common and best_months are fixed texts keyed by the name.
seedHotspots ==
    << [name |-> "Bay of Islands", latitude |-> -3525, longitude |-> 17410,
        avg_success_rate |-> 655],
       [name |-> "North Cape", latitude |-> -3442, longitude |-> 17305,
        avg_success_rate |-> 782],
       [name |-> "King Bank", latitude |-> -3415, longitude |-> 17380,
        avg_success_rate |-> 728],
       [name |-> "Middlesex Bank", latitude |-> -3430, longitude |-> 17360,
        avg_success_rate |-> 694],
       [name |-> "Three Kings Islands", latitude |-> -3417, longitude |-> 17213,
        avg_success_rate |-> 756] >>

\* The columns of hotspots under a PRIMARY KEY or UNIQUE constraint.
hotspotsUniqueColumns == {"id"}

\* The rowid an INSERT without id gets: AUTOINCREMENT, one above the largest
\* ever used; no row is ever deleted but by REPLACE.
nextRowid(table) ==
    IF table = <<>> THEN 1 ELSE table[Len(table)].id + 1

\* INSERT OR REPLACE: rows that collide with the new row on a constrained
\* column are deleted, then the new row is inserted.  The statement gives no
\* id, so the new row's id is a fresh rowid.
insertOrReplace(table, values) ==
    LET row == [id |-> nextRowid(table)] @@ values
        kept == SelectSeq(table, LAMBDA r :
                    \A c \in hotspotsUniqueColumns : r[c] # row[c])
    IN  Append(kept, row)

RECURSIVE seedFrom(_, _)
seedFrom(table, k) ==
    IF k > Len(seedHotspots) THEN table
    ELSE seedFrom(insertOrReplace(table, seedHotspots[k]), k + 1)

\* hotspots.forEach(hotspot => stmt.run(hotspot))
seedAll(table) == seedFrom(table, 1)

(***************************************************************************)
(* authenticateToken.  A request header is [present, parts], parts being   *)
(* the header split at spaces.  A token is a string; what jwt.verify       *)
(* makes of it is looked up in tokenTable: malformed, or a payload with    *)
(* an expiry instant and a signature made with JWT_SECRET or with another  *)
(* key.  Missing texts are the empty string, missing numbers <<>>.         *)
(***************************************************************************)

tokenTable ==
    ("tok.alice" :> [wellFormed |-> TRUE, signed |-> TRUE, exp |-> 720,
                     userId |-> 1, email |-> "alice@example.org", name |-> "Alice"]) @@
    ("tok.bob" :> [wellFormed |-> TRUE, signed |-> TRUE, exp |-> 726,
                   userId |-> 2, email |-> "bob@example.org", name |-> "Bob"]) @@
    ("tok.alice.old" :> [wellFormed |-> TRUE, signed |-> TRUE, exp |-> 7,
                         userId |-> 1, email |-> "alice@example.org", name |-> "Alice"]) @@
    ("tok.forged" :> [wellFormed |-> TRUE, signed |-> FALSE, exp |-> 726,
                      userId |-> 2, email |-> "bob@example.org", name |-> "Bob"]) @@
    ("garbage" :> [wellFormed |-> FALSE, signed |-> FALSE, exp |-> 0,
                   userId |-> 0, email |-> "", name |-> ""]) @@
    ("jwt.1.alice" :> [wellFormed |-> TRUE, signed |-> TRUE, exp |-> 727,
                       userId |-> 1, email |-> "alice@example.org", name |-> "Alice"]) @@
    ("jwt.2.alice" :> [wellFormed |-> TRUE, signed |-> TRUE, exp |-> 727,
                       userId |-> 2, email |-> "alice@example.org", name |-> "Alice"]) @@
    ("jwt.1.bob" :> [wellFormed |-> TRUE, signed |-> TRUE, exp |-> 727,
                     userId |-> 1, email |-> "bob@example.org", name |-> "Bob"]) @@
    ("jwt.2.bob" :> [wellFormed |-> TRUE, signed |-> TRUE, exp |-> 727,
                     userId |-> 2, email |-> "bob@example.org", name |-> "Bob"])

Tokens == DOMAIN tokenTable

\* The tokens in the hands of clients when the two users of CatchStart are
\* registered, and the texts a client can make up.
ClientTokens == {"tok.alice", "tok.bob", "tok.alice.old", "tok.forged", "garbage"}

\* jwt.verify(token, JWT_SECRET, callback): err unless the token parses, its
\* signature was made with JWT_SECRET and its exp lies after the clock.
jwtVerifyFails(token, t) ==
    LET p == tokenTable[token] IN
    ~p.wellFormed \/ ~p.signed \/ t >= p.exp

\* authHeader && authHeader.split(' ')[1]; the empty string stands for
\* every falsy outcome (undefined, '').
tokenOf(header) ==
    IF header.present /\ header.parts # <<"">> /\ Len(header.parts) >= 2
    THEN header.parts[2] ELSE ""

\* Mutation: a missing token passed on to jwt.verify instead of being
\* answered.
authenticateTokenNoEarlyReturn(header, t) ==
    LET token == tokenOf(header) IN
    IF token = "" \/ jwtVerifyFails(token, t)
    THEN [next |-> FALSE, status |-> 403, error |-> "Invalid token", userId |-> 0]
    ELSE [next |-> TRUE, status |-> 0, error |-> "", userId |-> tokenTable[token].userId]

\* The middleware: answers 401 or 403 itself, or sets req.user and calls
\* next().
authenticateToken(header, t) ==
    LET token == tokenOf(header) IN
    IF token = ""
    THEN [next |-> FALSE, status |-> 401, error |-> "Access token required", userId |-> 0]
    ELSE IF jwtVerifyFails(token, t)
    THEN [next |-> FALSE, status |-> 403, error |-> "Invalid token", userId |-> 0]
    ELSE [next |-> TRUE, status |-> 0, error |-> "", userId |-> tokenTable[token].userId]

AuthHeaders ==
    {[present |-> FALSE, parts |-> <<>>]} \cup
    {[present |-> TRUE, parts |-> ps] :
        ps \in {<<"">>, <<"Bearer">>, <<"Bearer", "">>, <<"garbage">>}
               \cup {<<"Bearer", tok>> : tok \in ClientTokens}}

(***************************************************************************)
(* POST /api/catches and GET /api/catches                                  *)
(***************************************************************************)

MaxCatches == 2

\* !x for a text and for a number.
falsyText(x) == x = ""
falsyNumber(x) == x = <<>> \/ x = <<0>>

\* Request bodies: weights in grams, coordinates in hundredths of a degree.
catchBody(sp, w, at) ==
    [species |-> sp, weight |-> w, length |-> <<>>, gear_type |-> "rod",
     latitude |-> <<-3525>>, longitude |-> <<17410>>, depth |-> <<>>,
     water_temp |-> <<>>, time_caught |-> at, notes |-> "", photo_url |-> ""]

CatchBodies ==
    {catchBody("Snapper", <<5200>>, "2026-11-01T06:00"),
     catchBody("Kingfish", <<-1000>>, "2026-11-01T05:00"),
     catchBody("", <<5200>>, "2026-11-01T06:00"),
     catchBody("Snapper", <<0>>, "2026-11-01T06:00"),
     catchBody("Snapper", <<>>, "")}

missingRequired(b) ==
    \/ falsyText(b.species) \/ falsyNumber(b.weight) \/ falsyText(b.gear_type)
    \/ falsyNumber(b.latitude) \/ falsyNumber(b.longitude) \/ falsyText(b.time_caught)

LimitParams == {1, 50}
OffsetParams == {0, 1}

\* INSERT INTO catch_logs (...): foreign keys are not enforced, the row is
\* stored whatever user_id is.
insertCatch(table, userId, b) ==
    Append(table, [id |-> nextRowid(table), user_id |-> userId] @@ b)

\* time_caught is a text column; the order of the two instants used here.
timeRank(at) == IF at = "2026-11-01T06:00" THEN 2 ELSE IF at = "2026-11-01T05:00" THEN 1 ELSE 0

\* ORDER BY cl.time_caught DESC; rows of one instant keep the table's order.
RECURSIVE insertByTimeCaught(_, _)
insertByTimeCaught(sorted, r) ==
    IF sorted = <<>> THEN <<r>>
    ELSE IF timeRank(Head(sorted).time_caught) >= timeRank(r.time_caught)
         THEN <<Head(sorted)>> \o insertByTimeCaught(Tail(sorted), r)
         ELSE <<r>> \o sorted

RECURSIVE orderByTimeCaught(_)
orderByTimeCaught(rows) ==
    IF rows = <<>> THEN <<>>
    ELSE insertByTimeCaught(orderByTimeCaught(SubSeq(rows, 1, Len(rows) - 1)),
                            rows[Len(rows)])

\* Mutation: the listing without its WHERE cl.user_id = ?.
selectCatchesOfAnyUser(logs, userTable, userId, limit, offset) ==
    LET nameOf(id) == (CHOOSE u \in {userTable[k] : k \in 1 .. Len(userTable)} :
                            u.id = id).name
        sorted == orderByTimeCaught(logs)
        joined == [k \in 1 .. Len(sorted) |->
                        sorted[k] @@ [angler_name |-> nameOf(sorted[k].user_id)]]
    IN  SubSeq(joined, offset + 1, Min(Len(joined), offset + limit))

\* SELECT cl.*, u.name AS angler_name FROM catch_logs cl JOIN users u
\* ON cl.user_id = u.id WHERE cl.user_id = ? ORDER BY ... LIMIT ? OFFSET ?
selectCatches(logs, userTable, userId, limit, offset) ==
    LET own == SelectSeq(logs, LAMBDA r :
                    /\ r.user_id = userId
                    /\ \E k \in 1 .. Len(userTable) : userTable[k].id = r.user_id)
        nameOf(id) == (CHOOSE u \in {userTable[k] : k \in 1 .. Len(userTable)} :
                            u.id = id).name
        sorted == orderByTimeCaught(own)
        joined == [k \in 1 .. Len(sorted) |->
                        sorted[k] @@ [angler_name |-> nameOf(sorted[k].user_id)]]
    IN  SubSeq(joined, offset + 1, Min(Len(joined), offset + limit))

idleCatchReq ==
    [route |-> "", header |-> [present |-> FALSE, parts |-> <<>>],
     payload |-> catchBody("", <<>>, ""), limit |-> 0, offset |-> 0,
     userId |-> 0, pc |-> "idle", err |-> FALSE, rows |-> <<>>, lastID |-> 0,
     dbCalls |-> 0, status |-> 0, error |-> "", body |-> <<>>]

\* POST /api/catches up to db.run(...): the middleware, then the check of
\* the required fields, then the INSERT is handed to sqlite.  One request
\* is followed at a time.
CatchesPost(header, b) ==
    LET auth == authenticateToken(header, now)
        req == [idleCatchReq EXCEPT !.route = "POST /api/catches",
                                    !.header = header, !.payload = b] IN
    /\ catchReq.pc \in {"idle", "done"}
    /\ Len(catch_logs) < MaxCatches
    /\ catchReq' =
          IF ~auth.next
          THEN [req EXCEPT !.pc = "done", !.status = auth.status, !.error = auth.error]
          ELSE IF missingRequired(b)
          THEN [req EXCEPT !.pc = "done", !.status = 400, !.userId = auth.userId,
                  !.error = "Required fields: species, weight, gear_type, latitude, longitude, time_caught"]
          ELSE [req EXCEPT !.pc = "store", !.userId = auth.userId, !.dbCalls = 1]
    /\ UNCHANGED <<catch_logs, users, hotspots, startups, now, rnd>>
    /\ UNCHANGED <<scoreVars, generated, predVars, gridVars, accountVars, publicVars, processVars>>

\* GET /api/catches up to db.all(...).
CatchesGet(header, limit, offset) ==
    LET auth == authenticateToken(header, now)
        req == [idleCatchReq EXCEPT !.route = "GET /api/catches", !.header = header,
                                    !.limit = limit, !.offset = offset] IN
    /\ catchReq.pc \in {"idle", "done"}
    /\ catchReq' =
          IF ~auth.next
          THEN [req EXCEPT !.pc = "done", !.status = auth.status, !.error = auth.error]
          ELSE [req EXCEPT !.pc = "store", !.userId = auth.userId, !.dbCalls = 1]
    /\ UNCHANGED <<catch_logs, users, hotspots, startups, now, rnd>>
    /\ UNCHANGED <<scoreVars, generated, predVars, gridVars, accountVars, publicVars, processVars>>

\* sqlite runs the statement of the request and either completes it or
\* fails.
CatchesStore(fails) ==
    /\ catchReq.pc = "store"
    /\ IF fails
       THEN /\ catchReq' = [catchReq EXCEPT !.pc = "callback", !.err = TRUE]
            /\ UNCHANGED catch_logs
       ELSE IF catchReq.route = "POST /api/catches"
       THEN /\ catch_logs' = insertCatch(catch_logs, catchReq.userId, catchReq.payload)
            /\ catchReq' = [catchReq EXCEPT !.pc = "callback",
                                            !.lastID = nextRowid(catch_logs)]
       ELSE /\ catchReq' = [catchReq EXCEPT !.pc = "callback",
                    !.rows = selectCatches(catch_logs, users, catchReq.userId,
                                           catchReq.limit, catchReq.offset)]
            /\ UNCHANGED catch_logs
    /\ UNCHANGED <<users, hotspots, startups, now, rnd>>
    /\ UNCHANGED <<scoreVars, generated, predVars, gridVars, accountVars, publicVars, processVars>>

\* The callback of db.run / db.all.  updatePredictionsFromCatch only logs.
CatchesCallback ==
    /\ catchReq.pc = "callback"
    /\ catchReq' =
          IF catchReq.err
          THEN [catchReq EXCEPT !.pc = "done", !.status = 500,
                  !.error = IF catchReq.route = "POST /api/catches"
                            THEN "Failed to log catch" ELSE "Database error"]
          ELSE IF catchReq.route = "POST /api/catches"
          THEN [catchReq EXCEPT !.pc = "done", !.status = 201]
          ELSE [catchReq EXCEPT !.pc = "done", !.status = 200, !.body = catchReq.rows]
    /\ UNCHANGED <<catch_logs, users, hotspots, startups, now, rnd>>
    /\ UNCHANGED <<scoreVars, generated, predVars, gridVars, accountVars, publicVars, processVars>>

\* The server is started again on the same database file: the tables exist
\* already, the seed rows are inserted again, and a request the old process
\* was handling is lost.
Startup ==
    /\ startups < MaxStartups
    /\ startups' = startups + 1
    /\ hotspots' = seedAll(hotspots)
    /\ catchReq' = idleCatchReq
    /\ UNCHANGED <<catch_logs, users, now, rnd>>
    /\ UNCHANGED <<scoreVars, generated, predVars, gridVars, accountVars, publicVars, processVars>>

\* The users registered so far.
registeredUsers ==
    << [id |-> 1, email |-> "alice@example.org", name |-> "Alice"],
       [id |-> 2, email |-> "bob@example.org", name |-> "Bob"] >>

\* A server started for the first time, at 07:00, two users registered.
CatchStart ==
    /\ rnd = [pos |-> 0, stride |-> 1]
    /\ now = 7
    /\ startups = 1
    /\ hotspots = seedAll(<<>>)
    /\ users = registeredUsers
    /\ catch_logs = <<>>
    /\ catchReq = idleCatchReq

CatchIdle ==
    /\ startups = 1
    /\ hotspots = seedAll(<<>>)
    /\ users = <<>>
    /\ catch_logs = <<>>
    /\ catchReq = idleCatchReq

(***************************************************************************)
(* POST /api/register                                                      *)
(***************************************************************************)

MaxRegisters == 3

\* expiresIn: '30d', in hours.
tokenLifetime == 720

\* jwt.sign({ userId, email, name }, JWT_SECRET, { expiresIn: '30d' }): the
\* token with this payload, signed with JWT_SECRET, expiring 30 days on.
jwtSign(userId, email, name, t) ==
    CHOOSE tok \in Tokens :
        /\ tokenTable[tok].wellFormed /\ tokenTable[tok].signed
        /\ tokenTable[tok].userId = userId
        /\ tokenTable[tok].email = email
        /\ tokenTable[tok].name = name
        /\ tokenTable[tok].exp = t + tokenLifetime

\* bcryptjs: hash and compare answer with an error unless the password is a
\* string; the hash of a password matches that password and no other.
bcryptHash(password) == [alg |-> "bcrypt", of |-> password]
bcryptCompare(password, hash) == hash.of = password

\* A JSON body: texts, "" for a field left out; isString tells whether the
\* password came as a JSON string or as a number.
registerBody(email, password, isString, name) ==
    [email |-> email, password |-> password, isString |-> isString, name |-> name]

RegisterBodies ==
    {registerBody("alice@example.org", "secret1", TRUE, "Alice"),
     registerBody("alice@example.org", "secret2", TRUE, "Alice"),
     registerBody("alice@example.org", "12345", FALSE, "Alice"),
     registerBody("alice@example.org", "secret1", TRUE, ""),
     registerBody("bob@example.org", "secret1", TRUE, "Bob")}

\* Mutation: the users table without the UNIQUE constraint on email.
emailNeverTaken(userTable, email) == FALSE

\* email TEXT UNIQUE NOT NULL
emailTaken(userTable, email) ==
    \E k \in 1 .. Len(userTable) : userTable[k].email = email

\* INSERT INTO users (email, password_hash, name) VALUES (?, ?, ?)
insertUser(userTable, email, hash, name) ==
    Append(userTable, [id |-> nextRowid(userTable), email |-> email,
                       password_hash |-> hash, name |-> name])

\* The handler up to `await bcrypt.hash(...)`.
RegisterRequest(b) ==
    LET req == [body |-> b, pc |-> "hash", hash |-> bcryptHash(""), err |-> "",
                lastID |-> 0, status |-> 0, error |-> "", token |-> ""] IN
    /\ Len(regReqs) < MaxRegisters
    /\ regReqs' = Append(regReqs,
          IF b.email = "" \/ b.password = "" \/ b.name = ""
          THEN [req EXCEPT !.pc = "done", !.status = 400,
                           !.error = "Email, password, and name required"]
          ELSE req)
    /\ UNCHANGED <<users, loginReq, issued, now, rnd>>
    /\ UNCHANGED <<startups, hotspots, catch_logs, catchReq>>
    /\ UNCHANGED <<scoreVars, generated, predVars, gridVars, publicVars, processVars>>

\* bcrypt.hash settles: the INSERT is handed to sqlite, or the catch block
\* answers.
RegisterHash(i) ==
    /\ i \in 1 .. Len(regReqs)
    /\ regReqs[i].pc = "hash"
    /\ regReqs' = [regReqs EXCEPT ![i] =
          IF regReqs[i].body.isString
          THEN [@ EXCEPT !.pc = "insert",
                         !.hash = bcryptHash(regReqs[i].body.password)]
          ELSE [@ EXCEPT !.pc = "done", !.status = 500, !.error = "Server error"]]
    /\ UNCHANGED <<users, loginReq, issued, now, rnd>>
    /\ UNCHANGED <<startups, hotspots, catch_logs, catchReq>>
    /\ UNCHANGED <<scoreVars, generated, predVars, gridVars, publicVars, processVars>>

\* sqlite runs the INSERT: it fails on the UNIQUE constraint of email, fails
\* for another reason, or stores the row.
RegisterInsert(i, fails) ==
    /\ i \in 1 .. Len(regReqs)
    /\ regReqs[i].pc = "insert"
    /\ IF fails
       THEN /\ regReqs' = [regReqs EXCEPT ![i] =
                  [@ EXCEPT !.pc = "callback", !.err = "SQLITE_IOERR: disk I/O error"]]
            /\ UNCHANGED users
       ELSE IF emailTaken(users, regReqs[i].body.email)
       THEN /\ regReqs' = [regReqs EXCEPT ![i] =
                  [@ EXCEPT !.pc = "callback",
                      !.err = "SQLITE_CONSTRAINT: UNIQUE constraint failed: users.email"]]
            /\ UNCHANGED users
       ELSE /\ users' = insertUser(users, regReqs[i].body.email, regReqs[i].hash,
                                   regReqs[i].body.name)
            /\ regReqs' = [regReqs EXCEPT ![i] =
                  [@ EXCEPT !.pc = "callback", !.lastID = nextRowid(users)]]
    /\ UNCHANGED <<loginReq, issued, now, rnd>>
    /\ UNCHANGED <<startups, hotspots, catch_logs, catchReq>>
    /\ UNCHANGED <<scoreVars, generated, predVars, gridVars, publicVars, processVars>>

\* err.message.includes('UNIQUE constraint failed') for the two messages.
isUniqueFailure(message) ==
    message = "SQLITE_CONSTRAINT: UNIQUE constraint failed: users.email"

\* The callback of the INSERT.
RegisterCallback(i) ==
    /\ i \in 1 .. Len(regReqs)
    /\ regReqs[i].pc = "callback"
    /\ LET r == regReqs[i]
           token == jwtSign(r.lastID, r.body.email, r.body.name, now) IN
       IF r.err # ""
       THEN /\ regReqs' = [regReqs EXCEPT ![i] =
                  IF isUniqueFailure(r.err)
                  THEN [@ EXCEPT !.pc = "done", !.status = 400,
                                 !.error = "Email already registered"]
                  ELSE [@ EXCEPT !.pc = "done", !.status = 500,
                                 !.error = "Registration failed"]]
            /\ UNCHANGED issued
       ELSE /\ regReqs' = [regReqs EXCEPT ![i] =
                  [@ EXCEPT !.pc = "done", !.status = 201, !.token = token]]
            /\ issued' = issued \cup {token}
    /\ UNCHANGED <<users, loginReq, now, rnd>>
    /\ UNCHANGED <<startups, hotspots, catch_logs, catchReq>>
    /\ UNCHANGED <<scoreVars, generated, predVars, gridVars, publicVars, processVars>>

idleLoginReq ==
    [email |-> "", password |-> "", pc |-> "idle", err |-> FALSE,
     found |-> <<>>, status |-> 0, error |-> "", token |-> ""]

(***************************************************************************)
(* POST /api/login                                                         *)
(***************************************************************************)

LoginEmails == {"alice@example.org", "bob@example.org", ""}
LoginPasswords == {"secret1", "wrong", ""}

\* SELECT * FROM users WHERE email = ?  (db.get: the first row or none)
selectUserByEmail(userTable, email) ==
    LET found == SelectSeq(userTable, LAMBDA u : u.email = email) IN
    IF found = <<>> THEN <<>> ELSE <<Head(found)>>

\* The handler up to db.get(...).  One login is followed at a time.
LoginRequest(email, password) ==
    LET req == [idleLoginReq EXCEPT !.email = email, !.password = password] IN
    /\ loginReq.pc \in {"idle", "done"}
    /\ loginReq' =
          IF email = "" \/ password = ""
          THEN [req EXCEPT !.pc = "done", !.status = 400,
                           !.error = "Email and password required"]
          ELSE [req EXCEPT !.pc = "query"]
    /\ UNCHANGED <<users, regReqs, issued, now, rnd>>
    /\ UNCHANGED <<startups, hotspots, catch_logs, catchReq>>
    /\ UNCHANGED <<scoreVars, generated, predVars, gridVars, publicVars, processVars>>

\* sqlite runs the SELECT or fails.
LoginQuery(fails) ==
    /\ loginReq.pc = "query"
    /\ loginReq' =
          IF fails THEN [loginReq EXCEPT !.pc = "callback", !.err = TRUE]
          ELSE [loginReq EXCEPT !.pc = "callback",
                                !.found = selectUserByEmail(users, loginReq.email)]
    /\ UNCHANGED <<users, regReqs, issued, now, rnd>>
    /\ UNCHANGED <<startups, hotspots, catch_logs, catchReq>>
    /\ UNCHANGED <<scoreVars, generated, predVars, gridVars, publicVars, processVars>>

\* The callback of db.get up to `await bcrypt.compare(...)`.
LoginCallback ==
    /\ loginReq.pc = "callback"
    /\ loginReq' =
          IF loginReq.err
          THEN [loginReq EXCEPT !.pc = "done", !.status = 500, !.error = "Server error"]
          ELSE IF loginReq.found = <<>>
          THEN [loginReq EXCEPT !.pc = "done", !.status = 400,
                                !.error = "Invalid credentials"]
          ELSE [loginReq EXCEPT !.pc = "compare"]
    /\ UNCHANGED <<users, regReqs, issued, now, rnd>>
    /\ UNCHANGED <<startups, hotspots, catch_logs, catchReq>>
    /\ UNCHANGED <<scoreVars, generated, predVars, gridVars, publicVars, processVars>>

\* bcrypt.compare settles: 400 for a wrong password, else a token for the
\* row found.
LoginCompare ==
    /\ loginReq.pc = "compare"
    /\ LET user == loginReq.found[1]
           token == jwtSign(user.id, user.email, user.name, now) IN
       IF ~bcryptCompare(loginReq.password, user.password_hash)
       THEN /\ loginReq' = [loginReq EXCEPT !.pc = "done", !.status = 400,
                                            !.error = "Invalid credentials"]
            /\ UNCHANGED issued
       ELSE /\ loginReq' = [loginReq EXCEPT !.pc = "done", !.status = 200,
                                            !.token = token]
            /\ issued' = issued \cup {token}
    /\ UNCHANGED <<users, regReqs, now, rnd>>
    /\ UNCHANGED <<startups, hotspots, catch_logs, catchReq>>
    /\ UNCHANGED <<scoreVars, generated, predVars, gridVars, publicVars, processVars>>

(***************************************************************************)
(* Clients that register, log in and use the tokens they were given        *)
(***************************************************************************)

\* What a client can send: a token the server handed out, a token signed
\* with another key, no header.
HeldHeaders ==
    {[present |-> FALSE, parts |-> <<>>]} \cup
    {[present |-> TRUE, parts |-> <<"Bearer", tok>>] : tok \in issued \cup {"tok.forged"}}

AccountRegisterBodies ==
    {registerBody("alice@example.org", "secret1", TRUE, "Alice"),
     registerBody("bob@example.org", "secret1", TRUE, "Bob")}

AccountCatchBodies == {catchBody("Snapper", <<5200>>, "2026-11-01T06:00")}

AccountLogins ==
    {<<"alice@example.org", "secret1">>, <<"alice@example.org", "wrong">>,
     <<"bob@example.org", "secret1">>, <<"", "secret1">>}

\* No request is being handled.
Quiet ==
    /\ \A i \in 1 .. Len(regReqs) : regReqs[i].pc = "done"
    /\ loginReq.pc \in {"idle", "done"}
    /\ catchReq.pc \in {"idle", "done"}

\* A client sends its next request when the last one has been answered.
ClientRegister(b) == Quiet /\ RegisterRequest(b)
ClientLogin(email, password) == Quiet /\ LoginRequest(email, password)
ClientPost(header, b) == Quiet /\ CatchesPost(header, b)
ClientGet(header, limit, offset) == Quiet /\ CatchesGet(header, limit, offset)

\* A server just started on a new database, at 07:00.
RegisterStart ==
    /\ rnd = [pos |-> 0, stride |-> 1]
    /\ now = 7
    /\ startups = 1
    /\ hotspots = seedAll(<<>>)
    /\ users = <<>>
    /\ catch_logs = <<>>
    /\ catchReq = idleCatchReq
    /\ regReqs = <<>>
    /\ loginReq = idleLoginReq
    /\ issued = {}

AccountIdle ==
    /\ regReqs = <<>>
    /\ loginReq = idleLoginReq
    /\ issued = {}

(***************************************************************************)
(* GET /api/catches/public                                                 *)
(***************************************************************************)

\* The characters of the names users have registered with: the UTF-16 code
\* units length, charAt and repeat work on.  The last name starts with a
\* character outside the basic plane, which is two code units, written in
\* hexadecimal.
NameChars ==
    ("U+20BB7 U+7530" :> <<"D842", "DFB7", "7530">>) @@
    ("Alice" :> <<"A", "l", "i", "c", "e">>) @@
    ("Bob" :> <<"B", "o", "b">>) @@
    ("Al" :> <<"A", "l">>) @@
    ("Z" :> <<"Z">>) @@
    ("*J D" :> <<"*", "J", " ", "D">>)

Names == DOMAIN NameChars

\* String.prototype.charAt, repeat and length on a string given as its
\* characters; repeat is only called with count >= 0 here.
charAt(str, index) == IF index < Len(str) THEN <<str[index + 1]>> ELSE <<>>
repeat(str, count) == [k \in 1 .. count |-> str[1]]

\* Mutation: one asterisk for every character of the name.
maskNameWhole(name) ==
    charAt(NameChars[name], 0) \o repeat(<<"*">>, Len(NameChars[name]))

\* c.angler_name.charAt(0) + '*'.repeat(c.angler_name.length - 1)
maskName(name) ==
    charAt(NameChars[name], 0) \o repeat(<<"*">>, Len(NameChars[name]) - 1)

\* The instant a time_caught text of the catches used here names, in hours
\* of the clock; the comparison of the texts is the comparison of these.
hourOf(at) == IF at = "2026-11-01T06:00" THEN 6 ELSE IF at = "2026-11-01T05:00" THEN 5 ELSE 0

SpeciesQueries == {"", "Snapper"}
DaysQueries == {0, 7}
LimitQueries == {1, 100}

\* SELECT cl.species, ..., u.name as angler_name FROM catch_logs cl JOIN
\* users u ON cl.user_id = u.id WHERE [cl.species = ? AND] cl.time_caught > ?
\* ORDER BY cl.time_caught DESC LIMIT ?
selectPublic(logs, userTable, sp, daysAgo, limit) ==
    LET hit == SelectSeq(logs, LAMBDA r :
                    /\ sp # "" => r.species = sp
                    /\ hourOf(r.time_caught) > daysAgo
                    /\ \E k \in 1 .. Len(userTable) : userTable[k].id = r.user_id)
        nameOf(id) == (CHOOSE u \in {userTable[k] : k \in 1 .. Len(userTable)} :
                            u.id = id).name
        sorted == orderByTimeCaught(hit)
        columns == [k \in 1 .. Len(sorted) |->
                        [species |-> sorted[k].species, weight |-> sorted[k].weight,
                         length |-> sorted[k].length, gear_type |-> sorted[k].gear_type,
                         latitude |-> sorted[k].latitude,
                         longitude |-> sorted[k].longitude,
                         time_caught |-> sorted[k].time_caught,
                         notes |-> sorted[k].notes,
                         angler_name |-> nameOf(sorted[k].user_id)]]
    IN  SubSeq(columns, 1, Min(Len(columns), limit))

\* catches.map(c => ({...c, latitude: Math.round(c.latitude * 100) / 100,
\* longitude: ..., angler_name: ...})); coordinates are kept in hundredths.
anonymize(catches) ==
    [k \in 1 .. Len(catches) |->
        [catches[k] EXCEPT
            !.latitude = <<MathRound(catches[k].latitude[1], 1)>>,
            !.longitude = <<MathRound(catches[k].longitude[1], 1)>>,
            !.angler_name = maskName(catches[k].angler_name)]]

idlePublicReq ==
    [species |-> "", days |-> 0, limit |-> 0, daysAgo |-> 0, pc |-> "idle",
     err |-> FALSE, rows |-> <<>>, status |-> 0, error |-> "", body |-> <<>>]

\* The handler up to db.all(...).  One request is followed at a time.
PublicRequest(sp, days, limit) ==
    /\ publicReq.pc \in {"idle", "done"}
    /\ publicReq' = [idlePublicReq EXCEPT !.species = sp, !.days = days,
                        !.limit = limit, !.daysAgo = now - days * 24, !.pc = "query"]
    /\ UNCHANGED <<users, catch_logs, startups, hotspots, catchReq, now, rnd>>
    /\ UNCHANGED <<scoreVars, generated, predVars, gridVars, accountVars, processVars>>

\* sqlite runs the SELECT or fails.
PublicQuery(fails) ==
    /\ publicReq.pc = "query"
    /\ publicReq' =
          IF fails THEN [publicReq EXCEPT !.pc = "callback", !.err = TRUE]
          ELSE [publicReq EXCEPT !.pc = "callback",
                    !.rows = selectPublic(catch_logs, users, publicReq.species,
                                          publicReq.daysAgo, publicReq.limit)]
    /\ UNCHANGED <<users, catch_logs, startups, hotspots, catchReq, now, rnd>>
    /\ UNCHANGED <<scoreVars, generated, predVars, gridVars, accountVars, processVars>>

\* The callback of db.all.
PublicCallback ==
    /\ publicReq.pc = "callback"
    /\ publicReq' =
          IF publicReq.err
          THEN [publicReq EXCEPT !.pc = "done", !.status = 500,
                                 !.error = "Database error"]
          ELSE [publicReq EXCEPT !.pc = "done", !.status = 200,
                                 !.body = anonymize(publicReq.rows)]
    /\ UNCHANGED <<users, catch_logs, startups, hotspots, catchReq, now, rnd>>
    /\ UNCHANGED <<scoreVars, generated, predVars, gridVars, accountVars, processVars>>

\* At 07:00, two users registered under names of Names, each with one catch
\* logged this morning.
PublicStart ==
    /\ rnd = [pos |-> 0, stride |-> 1]
    /\ now = 7
    /\ startups = 1
    /\ hotspots = seedAll(<<>>)
    /\ \E n1 \in Names, n2 \in Names :
          users = insertUser(insertUser(<<>>, "alice@example.org",
                                        bcryptHash("secret1"), n1),
                             "bob@example.org", bcryptHash("secret1"), n2)
    /\ catch_logs =
          insertCatch(insertCatch(<<>>, 1, catchBody("Kingfish", <<-1000>>,
                                                     "2026-11-01T05:00")),
                      2, catchBody("Snapper", <<5200>>, "2026-11-01T06:00"))
    /\ catchReq = idleCatchReq
    /\ publicReq = idlePublicReq

PublicIdle == publicReq = idlePublicReq

(***************************************************************************)
(* The scheduled and the initial run of refreshEnvironmentalData, and the  *)
(* node process they run in.  stmt.run is given no callback: sqlite3       *)
(* reports a failed statement by emitting 'error' on the statement, and    *)
(* an 'error' event nobody listens to is thrown as an uncaught exception,  *)
(* which ends the process.                                                 *)
(***************************************************************************)

MaxRuns == 2

idleRefreshJob ==
    [timer |-> FALSE, runs |-> 0, by |-> "", queue |-> <<>>, errors |-> 0]

\* The body of refreshEnvironmentalData: a reading is sampled for each
\* location and its INSERT handed to sqlite; the function returns before
\* any of them has run.
queueReadings(job, by, r, t) ==
    [job EXCEPT !.by = by, !.runs = @ + 1,
                !.queue = insertReadings(<<>>, 1, r, t)]

\* cron.schedule('0 */3 * * *', ...): try { await refreshEnvironmentalData() }
\* with the two messages logged around it.
ScheduledRefresh ==
    /\ proc = "running"
    /\ refreshJob.queue = <<>>
    /\ refreshJob.runs < MaxRuns
    /\ refreshJob' = queueReadings(refreshJob, "cron", rnd, now)
    /\ rnd' = advance(rnd, Len(refreshLocations))
    /\ console' = console \cup {"Running scheduled data refresh...",
                                "Environmental data refreshed"}
    /\ UNCHANGED <<proc, now, environmental_data, gridReq>>
    /\ UNCHANGED <<scoreVars, generated, predVars, catchVars, accountVars, publicVars>>

\* setTimeout(refreshEnvironmentalData, 5000) fires.
InitialRefresh ==
    /\ proc = "running"
    /\ refreshJob.timer
    /\ refreshJob.queue = <<>>
    /\ refreshJob' = [queueReadings(refreshJob, "initial", rnd, now) EXCEPT
                         !.timer = FALSE]
    /\ rnd' = advance(rnd, Len(refreshLocations))
    /\ UNCHANGED <<proc, console, now, environmental_data, gridReq>>
    /\ UNCHANGED <<scoreVars, generated, predVars, catchVars, accountVars, publicVars>>

\* sqlite runs the next queued INSERT: the row is stored, or the statement
\* fails and the 'error' event, unheard, ends the process.
RefreshInsert(fails) ==
    /\ proc = "running"
    /\ refreshJob.queue # <<>>
    /\ IF fails
       THEN /\ proc' = "exited"
            /\ refreshJob' = [refreshJob EXCEPT !.errors = @ + 1]
            /\ UNCHANGED environmental_data
       ELSE /\ environmental_data' =
                  Append(environmental_data,
                         [Head(refreshJob.queue) EXCEPT
                             !.id = Len(environmental_data) + 1])
            /\ refreshJob' = [refreshJob EXCEPT !.queue = Tail(@)]
            /\ UNCHANGED proc
    /\ UNCHANGED <<console, rnd, now, gridReq>>
    /\ UNCHANGED <<scoreVars, generated, predVars, catchVars, accountVars, publicVars>>

\* Requests are handled while the process runs.
Serving(handlerStep) == proc = "running" /\ handlerStep

ServedBounds == {<<-3430, 17360, -3429, 17362>>, <<-3445, 17300, -3410, 17390>>}

\* app.listen's callback has run at 07:00: the initial run is due.
RefreshStart ==
    /\ rnd = [pos |-> 0, stride |-> 1]
    /\ now = 7
    /\ environmental_data = <<>>
    /\ gridReq = idleGridReq
    /\ proc = "running"
    /\ console = {}
    /\ refreshJob = [idleRefreshJob EXCEPT !.timer = TRUE]

ProcessIdle ==
    /\ proc = "running"
    /\ console = {}
    /\ refreshJob = idleRefreshJob

(***************************************************************************)
(* Specifications                                                          *)
(***************************************************************************)

ScoreInit == ScoreStart /\ GenIdle /\ PredIdle /\ GridIdle /\ CatchIdle /\ AccountIdle /\ PublicIdle /\ ProcessIdle
ScoreNext == ScoreCall
SpecScore == ScoreInit /\ [][ScoreNext]_vars

GenInit == GenStart /\ ScoreIdle /\ PredIdle /\ GridIdle /\ CatchIdle /\ AccountIdle /\ PublicIdle /\ ProcessIdle
GenNext == GenCall
SpecGenerate == GenInit /\ [][GenNext]_vars

PredInit == PredStart /\ ScoreIdle /\ generated = <<>> /\ GridIdle /\ CatchIdle /\ AccountIdle /\ PublicIdle /\ ProcessIdle
PredNext ==
    \/ \E sp \in SpeciesParams, h \in HoursParams : PredictionsRequest(sp, h)
    \/ \E i \in 1 .. Len(predReqs), fails \in BOOLEAN : PredictionsQuery(i, fails)
    \/ \E i \in 1 .. Len(predReqs) : PredictionsCallback(i)
    \/ \E i \in 1 .. Len(predReqs), fails \in BOOLEAN : PredictionsInsert(i, fails)
    \/ Tick
SpecPredictions == PredInit /\ [][PredNext]_vars

GridInit == GridStart /\ ScoreIdle /\ generated = <<>> /\ PredIdle /\ CatchIdle /\ AccountIdle /\ PublicIdle /\ ProcessIdle
GridNext ==
    \/ \E b \in BoundsParams : GridRequest(b)
    \/ \E fails \in BOOLEAN : GridQuery(fails)
    \/ GridCallback
    \/ RefreshEnvironmentalData
SpecGrid == GridInit /\ [][GridNext]_vars

CatchInit == CatchStart /\ ScoreIdle /\ generated = <<>> /\ PredIdle /\ GridIdle /\ AccountIdle /\ PublicIdle /\ ProcessIdle
CatchNext ==
    \/ \E header \in AuthHeaders, b \in CatchBodies : CatchesPost(header, b)
    \/ \E header \in AuthHeaders, limit \in LimitParams, offset \in OffsetParams :
            CatchesGet(header, limit, offset)
    \/ \E fails \in BOOLEAN : CatchesStore(fails)
    \/ CatchesCallback
    \/ Startup
SpecCatches == CatchInit /\ [][CatchNext]_vars

RegisterInit ==
    RegisterStart /\ ScoreIdle /\ generated = <<>> /\ PredIdle /\ GridIdle /\ PublicIdle /\ ProcessIdle
RegisterNext ==
    \/ \E b \in RegisterBodies : RegisterRequest(b)
    \/ \E i \in 1 .. MaxRegisters : RegisterHash(i)
    \/ \E i \in 1 .. MaxRegisters, fails \in BOOLEAN : RegisterInsert(i, fails)
    \/ \E i \in 1 .. MaxRegisters : RegisterCallback(i)
SpecRegister == RegisterInit /\ [][RegisterNext]_vars

PublicInit ==
    PublicStart /\ ScoreIdle /\ generated = <<>> /\ PredIdle /\ GridIdle /\ AccountIdle /\ ProcessIdle
PublicNext ==
    \/ \E sp \in SpeciesQueries, days \in DaysQueries, limit \in LimitQueries :
            PublicRequest(sp, days, limit)
    \/ \E fails \in BOOLEAN : PublicQuery(fails)
    \/ PublicCallback
SpecPublic == PublicInit /\ [][PublicNext]_vars

RefreshInit ==
    /\ RefreshStart /\ ScoreIdle /\ generated = <<>> /\ PredIdle /\ CatchIdle
    /\ AccountIdle /\ PublicIdle
RefreshNext ==
    \/ ScheduledRefresh
    \/ InitialRefresh
    \/ \E fails \in BOOLEAN : RefreshInsert(fails)
    \/ \E b \in ServedBounds : Serving(GridRequest(b))
    \/ \E fails \in BOOLEAN : Serving(GridQuery(fails))
    \/ Serving(GridCallback)
SpecRefresh == RefreshInit /\ [][RefreshNext]_vars

\* Requests sent one after the other, each handled to its answer.
AccountNext ==
    \/ \E b \in AccountRegisterBodies : ClientRegister(b)
    \/ \E i \in 1 .. MaxRegisters : RegisterHash(i)
    \/ \E i \in 1 .. MaxRegisters, fails \in BOOLEAN : RegisterInsert(i, fails)
    \/ \E i \in 1 .. MaxRegisters : RegisterCallback(i)
    \/ \E l \in AccountLogins : ClientLogin(l[1], l[2])
    \/ \E fails \in BOOLEAN : LoginQuery(fails)
    \/ LoginCallback
    \/ LoginCompare
    \/ \E header \in HeldHeaders, b \in AccountCatchBodies : ClientPost(header, b)
    \/ \E header \in HeldHeaders, limit \in LimitParams : ClientGet(header, limit, 0)
    \/ \E fails \in BOOLEAN : CatchesStore(fails)
    \/ CatchesCallback
SpecAccounts == RegisterInit /\ [][AccountNext]_vars

(***************************************************************************)
(* Properties of the scorer                                                *)
(***************************************************************************)

\* The scoring table of the specification, written out on its own.
InClosed(x, lo, hi) == x >= lo /\ x <= hi

TableSum(c, hour) ==
      (IF InClosed(c.sea_temperature, 20000, 24000) THEN 25
       ELSE IF InClosed(c.sea_temperature, 18000, 26000) THEN 15 ELSE 0)
    + (IF InClosed(c.current_speed, 500, 1200) THEN 20
       ELSE IF InClosed(c.current_speed, 300, 1500) THEN 10 ELSE 0)
    + (IF InClosed(c.chlorophyll, 100, 400) THEN 20
       ELSE IF InClosed(c.chlorophyll, 50, 600) THEN 10 ELSE 0)
    + (IF c.wind_speed <= 15000 THEN 15 ELSE IF c.wind_speed <= 20000 THEN 8 ELSE 0)
    + (IF c.wave_height <= 2000 THEN 10 ELSE IF c.wave_height <= 3000 THEN 5 ELSE 0)
    + (IF hour \in (5 .. 8) \cup (17 .. 19) THEN 10 ELSE 0)

ExampleReading ==
    [sea_temperature |-> 22000, current_speed |-> 800, chlorophyll |-> 200,
     wind_speed |-> 10000, wave_height |-> 1000]

C2_RatingMatchesReturnedScore ==
    scoreOut # <<>> =>
        LET s == scoreOut[1].score
            r == scoreOut[1].rating IN
        /\ s \in 0 .. 100
        /\ (s >= 80) <=> (r = "excellent")
        /\ (s >= 60 /\ s <= 79) <=> (r = "good")
        /\ (s >= 40 /\ s <= 59) <=> (r = "fair")
        /\ (s < 40) <=> (r = "poor")

\* C2 witness: a score exactly on the top threshold is rated excellent.
C2_Witness ==
    /\ scoreOut # <<>>
    /\ scoreOut[1].score = 80
    /\ scoreOut[1].rating = "excellent"

(***************************************************************************)
(* Properties of the prediction generator                                  *)
(***************************************************************************)

\* C3: a returned batch is sorted non-increasing by probability and every
\* probability is an integer in [0,100].
C3_SortedAndBounded ==
    /\ \A i \in 1 .. Len(generated) : generated[i].probability \in 0 .. 100
    /\ \A i \in 1 .. (Len(generated) - 1) :
            generated[i].probability >= generated[i + 1].probability

\* C3 witness: a returned batch holding at least two different probabilities.
C3_Witness ==
    /\ Len(generated) = Len(locations) * Len(species)
    /\ generated[1].probability > generated[Len(generated)].probability

\* The score the scorer gives the conditions of a prediction: what a species
\* without any bonus gets from them.
UnbonusedProbability(p) ==
    LET S == TableSum(p.conditions, p.timestamp % 24) IN IF S > 100 THEN 100 ELSE S

IsMarlin(p) == p.species \in {"Blue Marlin", "Striped Marlin"}

\* C4 as claimed: a marlin prediction from conditions warmer than 22 degrees
\* is exactly 10 above the unbonused probability, and equal to it otherwise.
C4_MarlinExactlyTenHigher ==
    \A i \in 1 .. Len(generated) :
        LET p == generated[i] IN
        IsMarlin(p) =>
            p.probability = UnbonusedProbability(p)
                + (IF p.conditions.sea_temperature > 22000 THEN 10 ELSE 0)

\* C4 amended: the bonus of 10 is added before the clamp, so the marlin
\* probability is min(100, unbonused + 10) above 22 degrees, and equal to the
\* unbonused probability at or below 22 degrees.
C4_MarlinTenHigherClamped ==
    \A i \in 1 .. Len(generated) :
        LET p == generated[i]
            u == UnbonusedProbability(p) IN
        IsMarlin(p) =>
            p.probability =
                IF p.conditions.sea_temperature > 22000
                THEN (IF u + 10 > 100 THEN 100 ELSE u + 10)
                ELSE u

\* C4 witness: a batch with a warm-water marlin 10 above its unbonused
\* probability and a marlin at or below 22 degrees equal to it.
C4_Witness ==
    /\ \E i \in 1 .. Len(generated) :
            /\ IsMarlin(generated[i])
            /\ generated[i].conditions.sea_temperature > 22000
            /\ generated[i].probability = UnbonusedProbability(generated[i]) + 10
    /\ \E i \in 1 .. Len(generated) :
            /\ IsMarlin(generated[i])
            /\ generated[i].conditions.sea_temperature <= 22000
            /\ generated[i].probability = UnbonusedProbability(generated[i])

(***************************************************************************)
(* Properties of GET /api/predictions                                      *)
(***************************************************************************)

\* The predictions of a response, without the row ids.
bodySet(r) == {content(r.body[k]) : k \in 1 .. Len(r.body)}

\* Request j arrived after every earlier request had completed (its INSERTs
\* included), was answered before any later request arrived, and everything
\* the request before it returned is still inside j's freshness window.
HandledRightAfter(i, j) ==
    /\ j = i + 1
    /\ predReqs[j].quiet
    /\ predReqs[j].alone
    /\ predReqs[i].status = 200
    /\ predReqs[j].status = 200
    /\ predReqs[i].species = predReqs[j].species
    /\ predReqs[i].hours = predReqs[j].hours
    /\ \A k \in 1 .. Len(predReqs[i].body) :
            predReqs[i].body[k].timestamp > predReqs[j].hoursAgo

\* C5: of two requests with the same parameters handled one after the other
\* within the freshness window, the second returns the same set of
\* predictions as the first and generates no new batch.
C5_SecondRequestReusesFirst ==
    \A i \in 1 .. Len(predReqs), j \in 1 .. Len(predReqs) :
        HandledRightAfter(i, j) =>
            /\ ~predReqs[j].generated
            /\ bodySet(predReqs[j]) = bodySet(predReqs[i])

\* C6: a successful response to a request for species S other than "all"
\* holds predictions of species S only, read from the store or freshly
\* generated.
C6_ResponseOnlyRequestedSpecies ==
    \A i \in 1 .. Len(predReqs) :
        (predReqs[i].status = 200 /\ predReqs[i].species # "all") =>
            \A k \in 1 .. Len(predReqs[i].body) :
                predReqs[i].body[k].species = predReqs[i].species

(***************************************************************************)
(* Properties of the synthesized grid                                      *)
(***************************************************************************)

\* The request being followed was answered with a synthesized grid.
GridSynthesized == gridReq.pc = "done" /\ gridReq.status = 200 /\ gridReq.synthesized

\* The corners were given in order: lat1 <= lat2 and lng1 <= lng2.
CornersInOrder == gridReq.bounds[1] <= gridReq.bounds[3] /\ gridReq.bounds[2] <= gridReq.bounds[4]

\* Sides of the box, in hundredths of a degree.
LatSide == gridReq.bounds[3] - gridReq.bounds[1]
LngSide == gridReq.bounds[4] - gridReq.bounds[2]

\* ceil(side / step) and floor(side / step) for a step of two hundredths.
CeilSteps(side) == (side + 1) \div 2
FloorSteps(side) == side \div 2

GridRows == Cardinality({gridReq.body[k].latitude.n : k \in 1 .. Len(gridReq.body)})
GridCols == Cardinality({gridReq.body[k].longitude.n : k \in 1 .. Len(gridReq.body)})

AxisCountOk(count, side) ==
    /\ count >= 1
    /\ IF side % 2 = 1
       THEN count = FloorSteps(side) + 1
       ELSE count \in {FloorSteps(side), FloorSteps(side) + 1}

cellsOf(grid) == {<<grid[k].latitude, grid[k].longitude>> : k \in 1 .. Len(grid)}

\* C9: a synthesized answer is not empty and has the cells the same box
\* gets with its corners given in the opposite order.
C9_SameCellsForSwappedCorners ==
    GridSynthesized =>
        LET b == gridReq.bounds IN
        /\ gridReq.body # <<>>
        /\ cellsOf(gridReq.body) =
               cellsOf(gridFallback(Number(b[3]), Number(b[4]), Number(b[1]),
                                    Number(b[2]), rnd, now))

\* The names of the five seed records.
SeedNames == {seedHotspots[k].name : k \in 1 .. Len(seedHotspots)}

\* C7: however often the server has been started on the database, hotspots
\* holds exactly the five seed records, one row for each name.
C7_ExactlyFiveSeedHotspots ==
    /\ Len(hotspots) = 5
    /\ \A n \in SeedNames :
          Cardinality({k \in 1 .. Len(hotspots) : hotspots[k].name = n}) = 1

\* The bearer token of a request: the word after the scheme in its
\* Authorization header, if there is one.
Carries(req, tok) ==
    /\ req.header.present
    /\ Len(req.header.parts) = 2
    /\ req.header.parts[2] = tok

NoToken(req) == \A tok \in Tokens : ~Carries(req, tok)

\* Tokens the server issued that have not expired.
GoodTokens ==
    {tok \in Tokens : /\ tokenTable[tok].wellFormed
                      /\ tokenTable[tok].signed
                      /\ now < tokenTable[tok].exp}

BadToken(req) == \E tok \in Tokens \ GoodTokens : Carries(req, tok)

Answered(req) == req.pc = "done"

\* C10: on POST /api/catches and GET /api/catches a request without a token
\* is answered 401 and one with an invalid or expired token 403; neither
\* is ever handed to the database, and the step that answers it leaves
\* catch_logs as it was.
C10_RejectedWithoutStoreAccess ==
    /\ [](catchReq.route # "" /\ NoToken(catchReq) =>
            /\ Answered(catchReq)
            /\ catchReq.status = 401
            /\ catchReq.dbCalls = 0)
    /\ [](catchReq.route # "" /\ BadToken(catchReq) =>
            /\ Answered(catchReq)
            /\ catchReq.status = 403
            /\ catchReq.dbCalls = 0)
    /\ [][(Answered(catchReq') /\ catchReq'.status \in {401, 403}) =>
            catch_logs' = catch_logs]_vars

\* C10 witness: with a catch already logged, a complete catch sent with an
\* expired token has been answered 403.
C10_Witness ==
    /\ Answered(catchReq)
    /\ catchReq.route = "POST /api/catches"
    /\ Carries(catchReq, "tok.alice.old")
    /\ ~missingRequired(catchReq.payload)
    /\ catchReq.status = 403
    /\ Len(catch_logs) = 1

\* C11: every stored catch has a weight above zero, and a POST /api/catches
\* whose weight is missing, zero or negative has been answered 400.
C11_StoredWeightsPositive ==
    /\ \A k \in 1 .. Len(catch_logs) :
          /\ catch_logs[k].weight # <<>>
          /\ catch_logs[k].weight[1] > 0
    /\ (/\ catchReq.route = "POST /api/catches"
        /\ authenticateToken(catchReq.header, now).next
        /\ (catchReq.payload.weight = <<>> \/ catchReq.payload.weight[1] <= 0))
       => (Answered(catchReq) /\ catchReq.status = 400)

\* The emails registration is asked for, and the requests asking for one.
RegisterEmails == {b.email : b \in RegisterBodies}
RegistersOf(e) == {i \in 1 .. Len(regReqs) : regReqs[i].body.email = e}
Created(e) == {i \in RegistersOf(e) : regReqs[i].status = 201}
RegisterAnswered(i) == regReqs[i].pc = "done"
NoSharedEmail ==
    \A j, k \in 1 .. Len(users) : users[j].email = users[k].email => j = k

\* The requests for an email that give all three fields.
CompleteOf(e) ==
    {i \in RegistersOf(e) : regReqs[i].body.password # "" /\ regReqs[i].body.name # ""}

Unhindered(i) ==
    /\ regReqs[i].body.password # "" /\ regReqs[i].body.name # ""
    /\ regReqs[i].body.isString
    /\ regReqs[i].err \in {"", "SQLITE_CONSTRAINT: UNIQUE constraint failed: users.email"}

OwnersOf(tok) ==
    {users[k].id : k \in {j \in 1 .. Len(users) : users[j].email = tokenTable[tok].email}}

UserIds == {users[k].id : k \in 1 .. Len(users)}

\* C13: every stored catch is owned by an existing user; the catch a POST
\* has just stored is owned by the user whose token posted it; and a
\* listing answered to a token holds only catches of the user the token
\* belongs to, each of them a stored catch.
C13_CatchesOwnedAndPrivate ==
    /\ \A k \in 1 .. Len(catch_logs) : catch_logs[k].user_id \in UserIds
    /\ \A tok \in Tokens :
          (Carries(catchReq, tok) /\ catchReq.lastID # 0) =>
             \E k \in 1 .. Len(catch_logs) :
                /\ catch_logs[k].id = catchReq.lastID
                /\ OwnersOf(tok) = {catch_logs[k].user_id}
    /\ \A tok \in Tokens :
          (/\ Carries(catchReq, tok)
           /\ catchReq.route = "GET /api/catches"
           /\ Answered(catchReq) /\ catchReq.status = 200) =>
             \A n \in 1 .. Len(catchReq.body) :
                /\ OwnersOf(tok) = {catchReq.body[n].user_id}
                /\ \E k \in 1 .. Len(catch_logs) :
                      /\ catch_logs[k].id = catchReq.body[n].id
                      /\ catch_logs[k].user_id = catchReq.body[n].user_id

\* C13 witness: two users have registered and each has logged a catch; the
\* second user's listing has been answered with that user's one catch.
C13_Witness ==
    /\ Len(users) = 2
    /\ Len(catch_logs) = 2
    /\ catch_logs[1].user_id = 1 /\ catch_logs[2].user_id = 2
    /\ catchReq.route = "GET /api/catches"
    /\ Answered(catchReq) /\ catchReq.status = 200
    /\ catchReq.limit = 50
    /\ Len(catchReq.body) = 1
    /\ catchReq.body[1].user_id = 2
    /\ loginReq.status = 200

\* C14: in an answer of GET /api/catches/public every angler_name is as
\* long as the stored name of the catch's owner, starts with that name's
\* first character and has '*' everywhere else, length and characters
\* being those of the JavaScript string.
C14_NameMaskedKeepingLength ==
    (publicReq.pc = "done" /\ publicReq.status = 200) =>
        \A k \in 1 .. Len(publicReq.body) :
            LET shown == publicReq.body[k].angler_name
                stored == NameChars[publicReq.rows[k].angler_name] IN
            /\ \E j \in 1 .. Len(users), c \in 1 .. Len(catch_logs) :
                  /\ catch_logs[c].time_caught = publicReq.body[k].time_caught
                  /\ catch_logs[c].user_id = users[j].id
                  /\ NameChars[users[j].name] = stored
            /\ Len(shown) = Len(stored)
            /\ shown[1] = stored[1]
            /\ \A i \in 2 .. Len(shown) : shown[i] = "*"

\* C14 witness: an answer listing the catches of Alice and of a user named
\* with one letter, as A**** and Z.
C14_Witness ==
    /\ publicReq.pc = "done" /\ publicReq.status = 200
    /\ Len(publicReq.body) = 2
    /\ publicReq.body[1].angler_name = <<"Z">>
    /\ publicReq.body[2].angler_name = <<"A", "*", "*", "*", "*">>

\* C15: when an INSERT of a refresh run has failed, the failure has been
\* logged by the program and the process is running, whichever way the run
\* was started.
C15_RefreshFailureIsolated ==
    refreshJob.errors > 0 =>
        /\ proc = "running"
        /\ "Data refresh failed" \in console

\* C16: a GET /api/predictions request that has been answered and one of
\* whose store operations failed, the SELECT or an INSERT of its fresh
\* batch, was answered 500.
C16_StoreErrorAnswered500 ==
    \A i \in 1 .. Len(predReqs) :
        (predReqs[i].status # 0 /\ (predReqs[i].err \/ predReqs[i].insertFailed)) =>
            predReqs[i].status = 500

\* The size of a generated batch: a prediction for each species at each
\* location.
BatchSize == Len(species) * Len(locations)

Observers == {i \in 1 .. Len(predReqs) : predReqs[i].generated}

\* Request j arrived when nothing was in progress, after request i had
\* stored a batch that lies in j's window.
LaterRead(i, j) ==
    /\ i < j
    /\ predReqs[i].generated
    /\ predReqs[j].quiet
    /\ predReqs[j].status = 200
    /\ predReqs[i].body[1].timestamp > predReqs[j].hoursAgo

NonIncreasing(rows) ==
    \A k \in 1 .. Len(rows) - 1 : rows[k].probability >= rows[k + 1].probability

\* The stored rows a read for species sp is about.
Matching(sp) ==
    {content(predictions[k]) :
        k \in {n \in 1 .. Len(predictions) :
                  /\ sp # "all" => predictions[n].species = sp}}

\* C17: when no INSERT is outstanding the table holds 20 rows for every
\* request that saw an empty result, and a later read in the window
\* generates nothing: it returns the stored rows it asks for, by
\* non-increasing probability.
C17_BatchesStoredOnceAndReused ==
    allDone(predReqs) =>
        /\ Len(predictions) = BatchSize * Cardinality(Observers)
        /\ \A i, j \in 1 .. Len(predReqs) :
              LaterRead(i, j) =>
                 /\ ~predReqs[j].generated
                 /\ NonIncreasing(predReqs[j].body)
                 /\ bodySet(predReqs[j]) = Matching(predReqs[j].species)

====
